---- MODULE Spec2Model ----
(***************************************************************************)
(* Model of the aptamer variant generator: core.py (fixed-k substitution   *)
(* and deletion generators, the sampled triple substitution loop and       *)
(* process_sequence) and sl-connection.py (the k-exhaustive generators and *)
(* the Streamlit run block).                                               *)
(*                                                                         *)
(* A Python str is a sequence of one-character strings.  Positions are     *)
(* Python's 0-based positions; At and Slice translate them.                *)
(***************************************************************************)
EXTENDS Integers, Sequences, FiniteSets, TLC

VARIABLES
    fn,               \* the function or handler that was called ("" before a call)
    pc,               \* "idle", "loop" (inside the while of the triple sampler), "done"
    seq,              \* the seq argument as given by the caller
    primer_f,         \* forward flank as given
    primer_r,         \* reverse flank as given
    mut_type,         \* process_sequence / UI: the mode
    keep_length,      \* process_sequence: keep_length
    delete_fill_side, \* process_sequence / UI: "5" or "3"
    sample_size,      \* the requested sample size
    count,            \* k of the k-exhaustive generators / the UI's count
    useq,             \* process_sequence's local seq after seq.upper()
    limit,            \* triple sampler: sample_size after min(sample_size, upper)
    seen,             \* triple sampler: keys of the OrderedDict, in insertion order
    fill_seq,         \* process_sequence: the fill string drawn for the call
    out,              \* list returned by a generator
    res,              \* dict returned by process_sequence / built by the UI
    outcome           \* "none", "returned", "ValueError", "IndexError", "stopped"

vars == <<fn, pc, seq, primer_f, primer_r, mut_type, keep_length, delete_fill_side,
          sample_size, count, useq, limit, seen, fill_seq, out, res, outcome>>

(***************************************************************************)
(* Bounds of the model.                                                    *)
(***************************************************************************)
MaxLen == 3        \* generator inputs: sequences of length 0..MaxLen
MaxK == 4          \* k of the k-exhaustive generators: 0..MaxK
MaxTripleLen == 3  \* triple sampler inputs: length 0..MaxTripleLen
MaxSample == 1     \* requested sample sizes: 0..MaxSample
MaxProcLen == 3    \* process_sequence inputs: length 0..MaxProcLen
MaxUILen == 2      \* text typed in the UI: length 0..MaxUILen

(***************************************************************************)
(* Python primitives.                                                      *)
(***************************************************************************)
BASES == <<"A", "T", "C", "G">>

Range(s) == {s[i] : i \in DOMAIN s}

SeqsUpTo(S, n) == UNION {[1..m -> S] : m \in 0..n}

At(s, i) == s[i + 1]

Slice(s, lo, hi) == SubSeq(s, lo + 1, hi)

RECURSIVE Flatten(_)
Flatten(ss) == IF Len(ss) = 0 THEN <<>> ELSE Head(ss) \o Flatten(Tail(ss))

Min(a, b) == IF a < b THEN a ELSE b

Abs(a) == IF a < 0 THEN 0 - a ELSE a

\* str.upper() on the characters the inputs are drawn from
UpperChar(c) ==
    CASE c = "a" -> "A"
      [] c = "t" -> "T"
      [] c = "c" -> "C"
      [] c = "g" -> "G"
      [] c = "x" -> "X"
      [] OTHER -> c

Upper(s) == [i \in 1..Len(s) |-> UpperChar(s[i])]

\* itertools.combinations(range(lo, n), r), in the order itertools yields them
RECURSIVE CombFrom(_, _, _)
CombFrom(lo, n, r) ==
    IF r = 0 THEN << <<>> >>
    ELSE Flatten([d \in 1..(n - lo - r + 1) |->
                    LET first == lo + d - 1
                        rest == CombFrom(first + 1, n, r - 1)
                    IN  [m \in 1..Len(rest) |-> <<first>> \o rest[m]]])

combinations(n, r) == CombFrom(0, n, r)

\* itertools.product(*choices)
RECURSIVE product(_)
product(choices) ==
    IF Len(choices) = 0 THEN << <<>> >>
    ELSE LET rest == product(Tail(choices))
         IN  Flatten([a \in 1..Len(Head(choices)) |->
                        [m \in 1..Len(rest) |-> <<Head(choices)[a]>> \o rest[m]]])

\* sorted(t, reverse=True)
RECURSIVE sorted_reverse(_)
sorted_reverse(t) ==
    IF Len(t) = 0 THEN <<>>
    ELSE LET mx == CHOOSE i \in DOMAIN t : \A j \in DOMAIN t : t[j] <= t[i]
         IN  <<t[mx]>> \o sorted_reverse(SubSeq(t, 1, mx - 1) \o SubSeq(t, mx + 1, Len(t)))

\* [b for b in BASES if b != orig]
OthersNoFilter(orig) == BASES

Others(orig) == SelectSeq(BASES, LAMBDA b : b # orig)

(***************************************************************************)
(* core.py: fixed-k generators.                                            *)
(***************************************************************************)
single_mutations_keep_orig(s) ==
    Flatten([i1 \in 1..Len(s) |->
               LET i == i1 - 1
                   bs == Others(At(s, i))
               IN  [n \in 1..Len(bs) |->
                      Slice(s, 0, i) \o <<bs[n]>> \o Slice(s, i, Len(s))]])

single_mutations(s) ==
    Flatten([i1 \in 1..Len(s) |->
               LET i == i1 - 1
                   bs == Others(At(s, i))
               IN  [n \in 1..Len(bs) |->
                      Slice(s, 0, i) \o <<bs[n]>> \o Slice(s, i + 1, Len(s))]])

double_mutations_orig_i(s) ==
    LET pairs == combinations(Len(s), 2)
    IN  Flatten([p \in 1..Len(pairs) |->
                   LET i == pairs[p][1]
                       j == pairs[p][2]
                       bi == Others(At(s, i))
                       bj == Others(At(s, i))
                   IN  Flatten([a \in 1..Len(bi) |->
                                  [b \in 1..Len(bj) |->
                                     Slice(s, 0, i) \o <<bi[a]>> \o Slice(s, i + 1, j)
                                       \o <<bj[b]>> \o Slice(s, j + 1, Len(s))]])])

double_mutations(s) ==
    LET pairs == combinations(Len(s), 2)
    IN  Flatten([p \in 1..Len(pairs) |->
                   LET i == pairs[p][1]
                       j == pairs[p][2]
                       bi == Others(At(s, i))
                       bj == Others(At(s, j))
                   IN  Flatten([a \in 1..Len(bi) |->
                                  [b \in 1..Len(bj) |->
                                     Slice(s, 0, i) \o <<bi[a]>> \o Slice(s, i + 1, j)
                                       \o <<bj[b]>> \o Slice(s, j + 1, Len(s))]])])

del1(s) == [i1 \in 1..Len(s) |-> Slice(s, 0, i1 - 1) \o Slice(s, i1, Len(s))]

del2_shifted(s) ==
    LET pairs == combinations(Len(s), 2)
    IN  [p \in 1..Len(pairs) |->
           LET i == pairs[p][1]
               j == pairs[p][2]
               t == Slice(s, 0, i) \o Slice(s, i + 1, Len(s))
           IN  Slice(t, 0, j) \o Slice(t, j + 1, Len(t))]

del2(s) ==
    LET pairs == combinations(Len(s), 2)
    IN  [p \in 1..Len(pairs) |->
           LET i == pairs[p][1]
               j == pairs[p][2]
           IN  Slice(s, 0, i) \o Slice(s, i + 1, j) \o Slice(s, j + 1, Len(s))]

(***************************************************************************)
(* sl-connection.py: k-exhaustive generators.                              *)
(***************************************************************************)
\* for p, new in zip(pos_tuple, new_bases): tmp[p] = new
RECURSIVE assign_all(_, _, _)
assign_all(tmp, pos_tuple, new_bases) ==
    IF Len(pos_tuple) = 0 \/ Len(new_bases) = 0 THEN tmp
    ELSE assign_all([tmp EXCEPT ![Head(pos_tuple) + 1] = Head(new_bases)],
                    Tail(pos_tuple), Tail(new_bases))

_replace_k_mutations(s, k) ==
    LET combos == combinations(Len(s), k)
    IN  Flatten([c \in 1..Len(combos) |->
                   LET pos_tuple == combos[c]
                       choices == [m \in 1..Len(pos_tuple) |-> Others(At(s, pos_tuple[m]))]
                       prod == product(choices)
                   IN  [m \in 1..Len(prod) |-> assign_all(s, pos_tuple, prod[m])]])

\* for p in ps: del new_seq[p]
RECURSIVE del_all(_, _)
del_all(new_seq, ps) ==
    IF Len(ps) = 0 THEN new_seq
    ELSE del_all(Slice(new_seq, 0, Head(ps)) \o Slice(new_seq, Head(ps) + 1, Len(new_seq)),
                 Tail(ps))

_delete_k_mutations(s, k) ==
    LET combos == combinations(Len(s), k)
    IN  [c \in 1..Len(combos) |-> del_all(s, sorted_reverse(combos[c]))]

(***************************************************************************)
(* core.py: triple_mutations_sampled.                                      *)
(***************************************************************************)
\* lines 30-31: sample_size = min(sample_size, upper)
triple_limit_unclamped(s, n) == n

triple_limit(s, n) ==
    LET upper == Len(combinations(Len(s), 3)) * (3 * 3 * 3)
    IN  Min(n, upper)

\* line 38: seen[key] = None on an OrderedDict
dict_set(d, key) == IF key \in Range(d) THEN d ELSE Append(d, key)

\* lines 34-38: the strings one pass of the loop body can produce; pos is any ascending
\* triple of positions, each new base any of the three non-original ones
triple_draws(s) ==
    LET idx == 0..(Len(s) - 1)
        triples == {pos \in idx \X idx \X idx : pos[1] < pos[2] /\ pos[2] < pos[3]}
    IN  UNION {{assign_all(s, pos, new) :
                   new \in Range(Others(At(s, pos[1]))) \X Range(Others(At(s, pos[2])))
                             \X Range(Others(At(s, pos[3])))} :
               pos \in triples}

(***************************************************************************)
(* core.py: process_sequence.                                              *)
(***************************************************************************)
MutTypes == {"single", "double", "triple", "del1", "del2"}

\* lines 73-82, the branches that call a generator directly
core_for(mt, s) ==
    CASE mt = "single" -> single_mutations(s)
      [] mt = "double" -> double_mutations(s)
      [] mt = "del1" -> del1(s)
      [] mt = "del2" -> del2(s)

\* line 88
n_del_one(core_list, s) == 1

n_del(core_list, s) == Abs(Len(core_list[1]) - Len(s))

\* lines 90-93
pad(core_list, fill, side) ==
    IF side = "5" THEN [i \in 1..Len(core_list) |-> fill \o core_list[i]]
    ELSE [i \in 1..Len(core_list) |-> core_list[i] \o fill]

\* line 87
needs_fill(mt, keep) == mt \in {"del1", "del2"} /\ keep

\* line 96
full_list_no_reverse(pf, pr, core_list) == [i \in 1..Len(core_list) |-> pf \o core_list[i]]

full_list_of(pf, pr, core_list) == [i \in 1..Len(core_list) |-> pf \o core_list[i] \o pr]

\* line 99
report_of(mt, n) == [i \in 1..n |-> mt \o "_" \o ToString(i)]

\* lines 86-105, given the core list of step 1 and the fill that line 89 draws
process_tail(s, pf, pr, mt, keep, side, core_list, fill) ==
    LET padded == IF needs_fill(mt, keep) THEN pad(core_list, fill, side) ELSE core_list
        full == full_list_of(Upper(pf), Upper(pr), padded)
    IN  [sequences |-> full, core_only |-> padded, report |-> report_of(mt, Len(full))]

NoRes == [sequences |-> <<>>, core_only |-> <<>>, report |-> <<>>]

(***************************************************************************)
(* Inputs.                                                                 *)
(***************************************************************************)
GenInputs == SeqsUpTo(Range(BASES), MaxLen)

TripleInputs == SeqsUpTo(Range(BASES), MaxTripleLen)

\* the text box's default sequence (sl-connection.py line 54), as far as the model reads it
DefaultSeq == <<"A", "T", "G", "C", "G", "T", "A", "C", "G", "T", "A", "G", "C">>

\* inputs of the runs checked for termination: prefixes of the default sequence and of poly-A
FairInputs ==
    {SubSeq(DefaultSeq, 1, m) : m \in 0..MaxTripleLen}
      \cup {[i \in 1..m |-> "A"] : m \in 0..MaxTripleLen}

\* mixed-case text: upper() changes "a" and keeps "G"
ProcInputs == SeqsUpTo({"a", "G"}, MaxProcLen)

\* <<forward flank, reverse flank>>: none (the text boxes' default), or mixed-case ones
FlankPairs == {<< <<>>, <<>> >>, << <<"a", "C">>, <<"t">> >>}

UIInputs == SeqsUpTo({"a", "G", "T", "\n"}, MaxUILen)

FillStrings(n) == [1..n -> Range(BASES)]

\* random.sample(population, n): n entries at pairwise distinct positions, in any order
random_sample(population, n) ==
    {[i \in 1..n |-> population[idx[i]]] :
        idx \in {f \in [1..n -> 1..Len(population)] :
                    \A a, b \in 1..n : a # b => f[a] # f[b]}}

strip_newlines(s) == SelectSeq(s, LAMBDA c : c # "\n")

(***************************************************************************)
(* Initial states: nothing has been called yet.                            *)
(***************************************************************************)
Blank ==
    /\ fn = ""
    /\ pc = "idle"
    /\ mut_type = ""
    /\ keep_length = FALSE
    /\ delete_fill_side = "5"
    /\ sample_size = 0
    /\ count = 0
    /\ useq = <<>>
    /\ limit = 0
    /\ seen = <<>>
    /\ fill_seq = <<>>
    /\ out = <<>>
    /\ res = NoRes
    /\ outcome = "none"

InitGen == Blank /\ seq \in GenInputs /\ primer_f = <<>> /\ primer_r = <<>>

InitTriple == Blank /\ seq \in TripleInputs /\ primer_f = <<>> /\ primer_r = <<>>

InitFair == Blank /\ seq \in FairInputs /\ primer_f = <<>> /\ primer_r = <<>>

InitProc ==
    /\ Blank
    /\ seq \in ProcInputs
    /\ \E fl \in FlankPairs : primer_f = fl[1] /\ primer_r = fl[2]

InitUI ==
    /\ Blank
    /\ seq \in UIInputs
    /\ \E fl \in FlankPairs : primer_f = fl[1] /\ primer_r = fl[2]

(***************************************************************************)
(* Direct calls of the generators.                                         *)
(***************************************************************************)
Returns(f, k, list) ==
    /\ pc = "idle"
    /\ fn' = f
    /\ count' = k
    /\ out' = list
    /\ outcome' = "returned"
    /\ pc' = "done"
    /\ UNCHANGED <<seq, primer_f, primer_r, mut_type, keep_length, delete_fill_side,
                   sample_size, useq, limit, seen, fill_seq, res>>

CallSingle == Returns("single_mutations", 1, single_mutations(seq))

CallDouble == Returns("double_mutations", 2, double_mutations(seq))

CallDel1 == Returns("del1", 1, del1(seq))

CallDel2 == Returns("del2", 2, del2(seq))

CallReplaceK == \E k \in 0..MaxK : Returns("_replace_k_mutations", k, _replace_k_mutations(seq, k))

CallDeleteK == \E k \in 0..MaxK : Returns("_delete_k_mutations", k, _delete_k_mutations(seq, k))

NextGen == CallSingle \/ CallDouble \/ CallDel1 \/ CallDel2 \/ CallReplaceK \/ CallDeleteK

SpecGen == InitGen /\ [][NextGen]_vars

(***************************************************************************)
(* triple_mutations_sampled, step by step through its while loop.          *)
(***************************************************************************)
\* lines 30-32
TripleCall ==
    /\ pc = "idle"
    /\ \E n \in 0..MaxSample :
          /\ sample_size' = n
          /\ limit' = triple_limit(seq, n)
    /\ fn' = "triple_mutations_sampled"
    /\ useq' = seq    \* called directly, the sampler reads the caller's seq as it is
    /\ seen' = <<>>
    /\ pc' = "loop"
    /\ UNCHANGED <<seq, primer_f, primer_r, mut_type, keep_length, delete_fill_side,
                   count, fill_seq, out, res, outcome>>

\* lines 33-38: one pass of the loop body; random.sample raises ValueError when the
\* population has fewer than 3 positions
TripleDraw ==
    /\ pc = "loop"
    /\ Len(seen) < limit
    /\ IF Len(useq) < 3
       THEN /\ outcome' = "ValueError"
            /\ pc' = "done"
            /\ UNCHANGED seen
       ELSE /\ \E new_seq \in triple_draws(useq) : seen' = dict_set(seen, new_seq)
            /\ UNCHANGED <<pc, outcome>>
    /\ UNCHANGED <<fn, seq, primer_f, primer_r, mut_type, keep_length, delete_fill_side,
                   sample_size, count, useq, limit, fill_seq, out, res>>

\* line 39, called directly
TripleReturn ==
    /\ pc = "loop"
    /\ fn = "triple_mutations_sampled"
    /\ ~(Len(seen) < limit)
    /\ out' = seen
    /\ outcome' = "returned"
    /\ pc' = "done"
    /\ UNCHANGED <<fn, seq, primer_f, primer_r, mut_type, keep_length, delete_fill_side,
                   sample_size, count, useq, limit, seen, fill_seq, res>>

NextTriple == TripleCall \/ TripleDraw \/ TripleReturn

SpecTriple == InitTriple /\ [][NextTriple]_vars

\* the loop keeps running, and the draws are random: a pass that adds a string not yet
\* seen is not postponed forever
FairSpecTriple ==
    InitFair /\ [][NextTriple]_vars /\ WF_vars(TripleDraw) /\ WF_vars(TripleReturn)

(***************************************************************************)
(* process_sequence.                                                       *)
(***************************************************************************)
\* lines 86-105 as the end of a call: the fill is drawn, or core_list[0] raises
ProcFinish(mt, keep, side, s, core_list) ==
    /\ IF needs_fill(mt, keep) /\ Len(core_list) = 0
       THEN /\ outcome' = "IndexError"
            /\ UNCHANGED <<fill_seq, res>>
       ELSE /\ \E fill \in FillStrings(IF needs_fill(mt, keep) THEN n_del(core_list, s) ELSE 0) :
                  /\ fill_seq' = fill
                  /\ res' = process_tail(s, primer_f, primer_r, mt, keep, side, core_list, fill)
            /\ outcome' = "returned"
    /\ pc' = "done"

\* lines 68-105 for every mode but "triple"; lines 68-78 and 30-32 for "triple"
ProcessSequence ==
    /\ pc = "idle"
    /\ fn' = "process_sequence"
    /\ mut_type' \in MutTypes \cup {"unsupported"}
    /\ keep_length' \in BOOLEAN
    /\ delete_fill_side' \in {"5", "3"}
    /\ sample_size' \in 0..MaxSample
    /\ useq' = Upper(seq)
    /\ CASE mut_type' = "triple" ->
              /\ limit' = triple_limit(useq', sample_size')
              /\ seen' = <<>>
              /\ pc' = "loop"
              /\ UNCHANGED <<fill_seq, res, outcome>>
         [] mut_type' = "unsupported" ->
              /\ outcome' = "ValueError"
              /\ pc' = "done"
              /\ UNCHANGED <<limit, seen, fill_seq, res>>
         [] OTHER ->
              /\ ProcFinish(mut_type', keep_length', delete_fill_side', useq',
                            core_for(mut_type', useq'))
              /\ UNCHANGED <<limit, seen>>
    /\ UNCHANGED <<seq, primer_f, primer_r, count, out>>

\* line 39 inside process_sequence, then lines 86-105
ProcTripleReturn ==
    /\ pc = "loop"
    /\ fn = "process_sequence"
    /\ ~(Len(seen) < limit)
    /\ ProcFinish(mut_type, keep_length, delete_fill_side, useq, seen)
    /\ UNCHANGED <<fn, seq, primer_f, primer_r, mut_type, keep_length, delete_fill_side,
                   sample_size, count, useq, limit, seen, out>>

NextProc == ProcessSequence \/ TripleDraw \/ ProcTripleReturn

SpecProc == InitProc /\ [][NextProc]_vars

(***************************************************************************)
(* sl-connection.py: the run block behind the button.                      *)
(***************************************************************************)
\* line 108
ui_report(mt, k, n) == [i \in 1..n |-> mt \o "_k" \o ToString(k) \o "_" \o ToString(i)]

\* lines 54-108
UIRun ==
    /\ pc = "idle"
    /\ fn' = "ui_run"
    /\ useq' = Upper(strip_newlines(seq))
    /\ mut_type' \in {"replace", "delete"}
    /\ count' \in 1..(IF Len(useq') > 0 THEN Len(useq') ELSE 1)
    /\ sample_size' \in 1..(MaxSample + 1)    \* number_input: min_value=1
    /\ delete_fill_side' \in (IF mut_type' = "delete" THEN {"5", "3"} ELSE {"5"})
    /\ keep_length' = TRUE
    /\ IF Len(useq') = 0
       THEN /\ outcome' = "stopped"
            /\ UNCHANGED res
       ELSE /\ LET exhaustive == IF mut_type' = "replace"
                                 THEN _replace_k_mutations(useq', count')
                                 ELSE _delete_k_mutations(useq', count')
                   candidates == IF Len(exhaustive) > sample_size'
                                 THEN random_sample(exhaustive, sample_size')
                                 ELSE {exhaustive}
                   first == del1(useq')
               IN  \E core_list \in candidates, fill \in FillStrings(n_del(first, useq')) :
                      res' = [process_tail(useq', primer_f, primer_r, "del1", TRUE,
                                           delete_fill_side', first, fill)
                                EXCEPT !.core_only = core_list,
                                       !.sequences = full_list_of(primer_f, primer_r, core_list),
                                       !.report = ui_report(mut_type', count', Len(core_list))]
            /\ outcome' = "returned"
    /\ pc' = "done"
    /\ UNCHANGED <<seq, primer_f, primer_r, limit, seen, fill_seq, out>>

NextUI == UIRun

SpecUI == InitUI /\ [][NextUI]_vars

(***************************************************************************)
(* Vocabulary of the properties, independent of the generators above.      *)
(***************************************************************************)
DiffPos(a, b) == {i \in 1..Len(a) : a[i] # b[i]}

BaseIndex(b) == CHOOSE i \in 1..Len(BASES) : BASES[i] = b

\* 1..3: the place of b in alphabet order once orig is skipped
RankSkipping(b, orig) == BaseIndex(b) - (IF BaseIndex(orig) < BaseIndex(b) THEN 1 ELSE 0)

NonOriginal(orig) == Range(BASES) \ {orig}

PairsOf(L) == {q \in (1..L) \X (1..L) : q[1] < q[2]}

\* 1-based place of the pair q among the ascending position pairs
PairRank(q, L) ==
    1 + Cardinality({r \in PairsOf(L) : r[1] < q[1] \/ (r[1] = q[1] /\ r[2] < q[2])})

Choose2(L) == (L * (L - 1)) \div 2

Choose3(L) == (L * (L - 1) * (L - 2)) \div 6

\* s without the positions in P, the rest in their original order
RemovePositions(s, P) ==
    LET kept == (1..Len(s)) \ P
        nth(m) == CHOOSE x \in kept : Cardinality({y \in kept : y < x}) = m - 1
    IN  [m \in 1..Cardinality(kept) |-> s[nth(m)]]

Distinct(list) == \A a, b \in 1..Len(list) : a # b => list[a] # list[b]

Returned(f) == pc = "done" /\ fn = f /\ outcome = "returned"

(***************************************************************************)
(* C1: single_mutations(S) has exactly 3L entries, each of length L and    *)
(* differing from S at exactly one position; the entry for position i and  *)
(* replacement b stands at place 3*i + (rank of b in A,T,C,G with S[i]     *)
(* skipped), i.e. position-major, alphabet order within a position.        *)
(***************************************************************************)
C1_SingleSub ==
    Returned("single_mutations") =>
        LET L == Len(seq) IN
        /\ Len(out) = 3 * L
        /\ \A n \in 1..Len(out) :
              Len(out[n]) = L /\ Cardinality(DiffPos(out[n], seq)) = 1
        /\ \A i \in 1..L : \A b \in NonOriginal(seq[i]) :
              out[3 * (i - 1) + RankSkipping(b, seq[i])] = [seq EXCEPT ![i] = b]

C1_Witness ==
    /\ Returned("single_mutations")
    /\ seq = <<"A", "T", "G">>
    /\ Len(out) = 9
    /\ SubSeq(out, 1, 3) = << <<"T", "T", "G">>, <<"C", "T", "G">>, <<"G", "T", "G">> >>

(***************************************************************************)
(* C2: double_mutations(S) has exactly 9*C(L,2) entries, each of length L  *)
(* and differing from S at exactly two positions; entries are ordered by   *)
(* ascending position pair, then by the replacement at i, then at j.       *)
(***************************************************************************)
C2_DoubleSub ==
    Returned("double_mutations") =>
        LET L == Len(seq) IN
        /\ Len(out) = 9 * Choose2(L)
        /\ \A n \in 1..Len(out) :
              Len(out[n]) = L /\ Cardinality(DiffPos(out[n], seq)) = 2
        /\ \A q \in PairsOf(L) :
              \A bi \in NonOriginal(seq[q[1]]) : \A bj \in NonOriginal(seq[q[2]]) :
                 out[9 * (PairRank(q, L) - 1) + 3 * (RankSkipping(bi, seq[q[1]]) - 1)
                       + RankSkipping(bj, seq[q[2]])]
                   = [seq EXCEPT ![q[1]] = bi, ![q[2]] = bj]

C2_Witness ==
    /\ Returned("double_mutations")
    /\ seq = <<"A", "T", "G">>
    /\ Len(out) = 27
    /\ out[1] = <<"T", "A", "G">>
    /\ out[10] = <<"T", "T", "A">>
    /\ out[27] = <<"A", "G", "C">>

(***************************************************************************)
(* C4: del1(S) / del2(S) has exactly C(L,1) / C(L,2) entries, in ascending *)
(* order of the deleted positions; each entry has length L-k and is S with *)
(* exactly the chosen positions removed, the rest in their original order. *)
(***************************************************************************)
C4_Deletions ==
    /\ Returned("del1") =>
          /\ Len(out) = Len(seq)
          /\ \A i \in 1..Len(seq) :
                Len(out[i]) = Len(seq) - 1 /\ out[i] = RemovePositions(seq, {i})
    /\ Returned("del2") =>
          /\ Len(out) = Choose2(Len(seq))
          /\ \A q \in PairsOf(Len(seq)) :
                /\ Len(out[PairRank(q, Len(seq))]) = Len(seq) - 2
                /\ out[PairRank(q, Len(seq))] = RemovePositions(seq, {q[1], q[2]})

C4_Witness ==
    /\ Returned("del2")
    /\ seq = <<"A", "T", "G">>
    /\ out = << <<"G">>, <<"T">>, <<"A">> >>

(***************************************************************************)
(* C8: a k-exhaustive generator called with k > L raises an error instead  *)
(* of returning a list, and called with k = 0 returns the original         *)
(* sequence unchanged.                                                     *)
(***************************************************************************)
C8_KOutOfRange ==
    (pc = "done" /\ fn \in {"_replace_k_mutations", "_delete_k_mutations"}) =>
        /\ count > Len(seq) => outcome = "ValueError"
        /\ count = 0 => (outcome = "returned" /\ out = <<seq>>)

Padded(variant) ==
    IF delete_fill_side = "5" THEN fill_seq \o variant ELSE variant \o fill_seq

C6_Aligned ==
    Returned("process_sequence") =>
        /\ Len(res.sequences) = Len(res.core_only)
        /\ Len(res.report) = Len(res.core_only)
        /\ \A i \in 1..Len(res.core_only) :
              /\ res.sequences[i] = Upper(primer_f) \o res.core_only[i] \o Upper(primer_r)
              /\ res.report[i] = mut_type \o "_" \o ToString(i)
        /\ Distinct(res.report)

C6_Witness ==
    /\ Returned("process_sequence")
    /\ mut_type = "single"
    /\ seq = <<"a", "G">>
    /\ primer_f = <<"a", "C">>
    /\ primer_r = <<"t">>
    /\ Len(res.report) = 6
    /\ res.sequences[1] = <<"A", "C", "T", "G", "T">>
    /\ res.report[6] = "single_6"

(***************************************************************************)
(* C7: process_sequence called with an empty sequence raises the           *)
(* invalid-parameter error (ValueError in this code) for every mode and    *)
(* option; it never returns a result and never fails in another way.       *)
(***************************************************************************)
C7_EmptyRejected ==
    (pc = "done" /\ fn = "process_sequence" /\ Len(seq) = 0) => outcome = "ValueError"

(***************************************************************************)
(* C10: in the UI's delete flow (1 <= k <= L, keep_length requested),      *)
(* every core variant of the final result has length exactly L.            *)
(***************************************************************************)
C10_UIDeletePadded ==
    (Returned("ui_run") /\ mut_type = "delete") =>
        \A i \in 1..Len(res.core_only) : Len(res.core_only[i]) = Len(useq)

====
